---- MODULE Spec2Model ----
(***************************************************************************)
(* Model of mechanisms/single/mod_func.c: the registration shim modl_reg  *)
(* of the NEURON mechanism library.  A process owns the two imported       *)
(* globals nrn_nobanner_ and nrnmpi_myid, its diagnostic stream and the    *)
(* record of the registration entry points it has called.  Text is         *)
(* modelled as sequences of characters; program points are source lines.   *)
(***************************************************************************)
EXTENDS Integers, Sequences, FiniteSets, TLC

\* Bounds of the model.
MaxProcs == 2
MaxInvocations == 2
MaxFlag == 1
MaxRank == 1

VARIABLES
  nprocs,          \* number of processes of the run
  nrn_nobanner_,   \* per process: the imported flag
  nrnmpi_myid,     \* per process: the imported rank
  pc,              \* per process: source line modl_reg is at; 0 before the first call
  callee,          \* per process: entry point now executing, <<>> if none
  failed,          \* per process: some entry point failed during this invocation
  written,         \* per process: text modl_reg wrote to stderr in this invocation
  nwrites,         \* per process: number of fprintf calls of this invocation
  calls,           \* per process: entry points called in this invocation, in order
  invocations,     \* per process: number of invocations of modl_reg so far
  regCount,        \* per process: entry point -> number of times it was called
  bannerCount,     \* per process: number of banners completed
  eligibleCount,   \* per process: invocations entered with flag clear and rank < 1
  entryGlobals,    \* per process: <<flag, rank>> at entry of this invocation
  calleeChanged    \* per process: an entry point changed a global in this invocation

vars == <<nprocs, nrn_nobanner_, nrnmpi_myid, pc, callee, failed, written, nwrites,
          calls, invocations, regCount, bannerCount, eligibleCount, entryGlobals,
          calleeChanged>>

Procs == 1..nprocs
Flags == 0..MaxFlag
Ranks == (0 - 1)..MaxRank

\* The extern declarations.
DeclaredRegs ==
  { <<"_", "I", "m", "_", "r", "e", "g">>,
    <<"_", "b", "k", "_", "r", "e", "g">>,
    <<"_", "c", "a", "d", "y", "n", "_", "r", "e", "g">>,
    <<"_", "c", "a", "l", "1", "2", "_", "r", "e", "g">>,
    <<"_", "c", "a", "l", "1", "3", "_", "r", "e", "g">>,
    <<"_", "c", "a", "l", "d", "y", "n", "_", "r", "e", "g">>,
    <<"_", "c", "a", "n", "_", "r", "e", "g">>,
    <<"_", "c", "a", "r", "_", "r", "e", "g">>,
    <<"_", "c", "a", "v", "3", "2", "_", "r", "e", "g">>,
    <<"_", "c", "a", "v", "3", "3", "_", "r", "e", "g">>,
    <<"_", "g", "a", "b", "a", "_", "r", "e", "g">>,
    <<"_", "g", "l", "u", "t", "a", "m", "a", "t", "e", "_", "r", "e", "g">>,
    <<"_", "k", "a", "f", "_", "r", "e", "g">>,
    <<"_", "k", "a", "s", "_", "r", "e", "g">>,
    <<"_", "k", "d", "r", "_", "r", "e", "g">>,
    <<"_", "k", "i", "r", "_", "r", "e", "g">>,
    <<"_", "n", "a", "f", "_", "r", "e", "g">>,
    <<"_", "s", "k", "_", "r", "e", "g">>,
    <<"_", "v", "e", "c", "e", "v", "e", "n", "t", "_", "r", "e", "g">> }

\* The argument of the fprintf at each source line.
FprintfArgNoSpace(line) ==
  CASE line = 29 -> <<"A", "d", "d", "i", "t", "i", "o", "n", "a", "l", " ", "m", "e", "c", "h", "a", "n", "i", "s", "m", "s", " ", "f", "r", "o", "m", " ", "f", "i", "l", "e", "s", "\n">>
    [] line = 31 -> <<" ", "I", "m", ".", "m", "o", "d">>
    [] line = 32 -> <<" ", "b", "k", ".", "m", "o", "d">>
    [] line = 33 -> <<" ", "c", "a", "d", "y", "n", ".", "m", "o", "d">>
    [] line = 34 -> <<" ", "c", "a", "l", "1", "2", ".", "m", "o", "d">>
    [] line = 35 -> <<" ", "c", "a", "l", "1", "3", ".", "m", "o", "d">>
    [] line = 36 -> <<" ", "c", "a", "l", "d", "y", "n", ".", "m", "o", "d">>
    [] line = 37 -> <<" ", "c", "a", "n", ".", "m", "o", "d">>
    [] line = 38 -> <<" ", "c", "a", "r", ".", "m", "o", "d">>
    [] line = 39 -> <<" ", "c", "a", "v", "3", "2", ".", "m", "o", "d">>
    [] line = 40 -> <<"c", "a", "v", "3", "3", ".", "m", "o", "d">>
    [] line = 41 -> <<" ", "g", "a", "b", "a", ".", "m", "o", "d">>
    [] line = 42 -> <<" ", "g", "l", "u", "t", "a", "m", "a", "t", "e", ".", "m", "o", "d">>
    [] line = 43 -> <<" ", "k", "a", "f", ".", "m", "o", "d">>
    [] line = 44 -> <<" ", "k", "a", "s", ".", "m", "o", "d">>
    [] line = 45 -> <<" ", "k", "d", "r", ".", "m", "o", "d">>
    [] line = 46 -> <<" ", "k", "i", "r", ".", "m", "o", "d">>
    [] line = 47 -> <<" ", "n", "a", "f", ".", "m", "o", "d">>
    [] line = 48 -> <<" ", "s", "k", ".", "m", "o", "d">>
    [] line = 49 -> <<" ", "v", "e", "c", "e", "v", "e", "n", "t", ".", "m", "o", "d">>
    [] line = 50 -> <<"\n">>

FprintfArgSwapped(line) ==
  CASE line = 29 -> <<"A", "d", "d", "i", "t", "i", "o", "n", "a", "l", " ", "m", "e", "c", "h", "a", "n", "i", "s", "m", "s", " ", "f", "r", "o", "m", " ", "f", "i", "l", "e", "s", "\n">>
    [] line = 31 -> <<" ", "I", "m", ".", "m", "o", "d">>
    [] line = 32 -> <<" ", "b", "k", ".", "m", "o", "d">>
    [] line = 33 -> <<" ", "c", "a", "l", "1", "2", ".", "m", "o", "d">>
    [] line = 34 -> <<" ", "c", "a", "d", "y", "n", ".", "m", "o", "d">>
    [] line = 35 -> <<" ", "c", "a", "l", "1", "3", ".", "m", "o", "d">>
    [] line = 36 -> <<" ", "c", "a", "l", "d", "y", "n", ".", "m", "o", "d">>
    [] line = 37 -> <<" ", "c", "a", "n", ".", "m", "o", "d">>
    [] line = 38 -> <<" ", "c", "a", "r", ".", "m", "o", "d">>
    [] line = 39 -> <<" ", "c", "a", "v", "3", "2", ".", "m", "o", "d">>
    [] line = 40 -> <<" ", "c", "a", "v", "3", "3", ".", "m", "o", "d">>
    [] line = 41 -> <<" ", "g", "a", "b", "a", ".", "m", "o", "d">>
    [] line = 42 -> <<" ", "g", "l", "u", "t", "a", "m", "a", "t", "e", ".", "m", "o", "d">>
    [] line = 43 -> <<" ", "k", "a", "f", ".", "m", "o", "d">>
    [] line = 44 -> <<" ", "k", "a", "s", ".", "m", "o", "d">>
    [] line = 45 -> <<" ", "k", "d", "r", ".", "m", "o", "d">>
    [] line = 46 -> <<" ", "k", "i", "r", ".", "m", "o", "d">>
    [] line = 47 -> <<" ", "n", "a", "f", ".", "m", "o", "d">>
    [] line = 48 -> <<" ", "s", "k", ".", "m", "o", "d">>
    [] line = 49 -> <<" ", "v", "e", "c", "e", "v", "e", "n", "t", ".", "m", "o", "d">>
    [] line = 50 -> <<"\n">>

FprintfArg(line) ==
  CASE line = 29 -> <<"A", "d", "d", "i", "t", "i", "o", "n", "a", "l", " ", "m", "e", "c", "h", "a", "n", "i", "s", "m", "s", " ", "f", "r", "o", "m", " ", "f", "i", "l", "e", "s", "\n">>
    [] line = 31 -> <<" ", "I", "m", ".", "m", "o", "d">>
    [] line = 32 -> <<" ", "b", "k", ".", "m", "o", "d">>
    [] line = 33 -> <<" ", "c", "a", "d", "y", "n", ".", "m", "o", "d">>
    [] line = 34 -> <<" ", "c", "a", "l", "1", "2", ".", "m", "o", "d">>
    [] line = 35 -> <<" ", "c", "a", "l", "1", "3", ".", "m", "o", "d">>
    [] line = 36 -> <<" ", "c", "a", "l", "d", "y", "n", ".", "m", "o", "d">>
    [] line = 37 -> <<" ", "c", "a", "n", ".", "m", "o", "d">>
    [] line = 38 -> <<" ", "c", "a", "r", ".", "m", "o", "d">>
    [] line = 39 -> <<" ", "c", "a", "v", "3", "2", ".", "m", "o", "d">>
    [] line = 40 -> <<" ", "c", "a", "v", "3", "3", ".", "m", "o", "d">>
    [] line = 41 -> <<" ", "g", "a", "b", "a", ".", "m", "o", "d">>
    [] line = 42 -> <<" ", "g", "l", "u", "t", "a", "m", "a", "t", "e", ".", "m", "o", "d">>
    [] line = 43 -> <<" ", "k", "a", "f", ".", "m", "o", "d">>
    [] line = 44 -> <<" ", "k", "a", "s", ".", "m", "o", "d">>
    [] line = 45 -> <<" ", "k", "d", "r", ".", "m", "o", "d">>
    [] line = 46 -> <<" ", "k", "i", "r", ".", "m", "o", "d">>
    [] line = 47 -> <<" ", "n", "a", "f", ".", "m", "o", "d">>
    [] line = 48 -> <<" ", "s", "k", ".", "m", "o", "d">>
    [] line = 49 -> <<" ", "v", "e", "c", "e", "v", "e", "n", "t", ".", "m", "o", "d">>
    [] line = 50 -> <<"\n">>

FprintfLines == {29, 31, 32, 33, 34, 35, 36, 37, 38, 39, 40, 41, 42, 43, 44, 45, 46, 47, 48, 49, 50}

\* The entry point called at each source line.
RegCalleeDup(line) ==
  CASE line = 52 -> <<"_", "I", "m", "_", "r", "e", "g">>
    [] line = 53 -> <<"_", "b", "k", "_", "r", "e", "g">>
    [] line = 54 -> <<"_", "c", "a", "d", "y", "n", "_", "r", "e", "g">>
    [] line = 55 -> <<"_", "c", "a", "l", "1", "2", "_", "r", "e", "g">>
    [] line = 56 -> <<"_", "c", "a", "l", "1", "2", "_", "r", "e", "g">>
    [] line = 57 -> <<"_", "c", "a", "l", "d", "y", "n", "_", "r", "e", "g">>
    [] line = 58 -> <<"_", "c", "a", "n", "_", "r", "e", "g">>
    [] line = 59 -> <<"_", "c", "a", "r", "_", "r", "e", "g">>
    [] line = 60 -> <<"_", "c", "a", "v", "3", "2", "_", "r", "e", "g">>
    [] line = 61 -> <<"_", "c", "a", "v", "3", "3", "_", "r", "e", "g">>
    [] line = 62 -> <<"_", "g", "a", "b", "a", "_", "r", "e", "g">>
    [] line = 63 -> <<"_", "g", "l", "u", "t", "a", "m", "a", "t", "e", "_", "r", "e", "g">>
    [] line = 64 -> <<"_", "k", "a", "f", "_", "r", "e", "g">>
    [] line = 65 -> <<"_", "k", "a", "s", "_", "r", "e", "g">>
    [] line = 66 -> <<"_", "k", "d", "r", "_", "r", "e", "g">>
    [] line = 67 -> <<"_", "k", "i", "r", "_", "r", "e", "g">>
    [] line = 68 -> <<"_", "n", "a", "f", "_", "r", "e", "g">>
    [] line = 69 -> <<"_", "s", "k", "_", "r", "e", "g">>
    [] line = 70 -> <<"_", "v", "e", "c", "e", "v", "e", "n", "t", "_", "r", "e", "g">>

RegCallee(line) ==
  CASE line = 52 -> <<"_", "I", "m", "_", "r", "e", "g">>
    [] line = 53 -> <<"_", "b", "k", "_", "r", "e", "g">>
    [] line = 54 -> <<"_", "c", "a", "d", "y", "n", "_", "r", "e", "g">>
    [] line = 55 -> <<"_", "c", "a", "l", "1", "2", "_", "r", "e", "g">>
    [] line = 56 -> <<"_", "c", "a", "l", "1", "3", "_", "r", "e", "g">>
    [] line = 57 -> <<"_", "c", "a", "l", "d", "y", "n", "_", "r", "e", "g">>
    [] line = 58 -> <<"_", "c", "a", "n", "_", "r", "e", "g">>
    [] line = 59 -> <<"_", "c", "a", "r", "_", "r", "e", "g">>
    [] line = 60 -> <<"_", "c", "a", "v", "3", "2", "_", "r", "e", "g">>
    [] line = 61 -> <<"_", "c", "a", "v", "3", "3", "_", "r", "e", "g">>
    [] line = 62 -> <<"_", "g", "a", "b", "a", "_", "r", "e", "g">>
    [] line = 63 -> <<"_", "g", "l", "u", "t", "a", "m", "a", "t", "e", "_", "r", "e", "g">>
    [] line = 64 -> <<"_", "k", "a", "f", "_", "r", "e", "g">>
    [] line = 65 -> <<"_", "k", "a", "s", "_", "r", "e", "g">>
    [] line = 66 -> <<"_", "k", "d", "r", "_", "r", "e", "g">>
    [] line = 67 -> <<"_", "k", "i", "r", "_", "r", "e", "g">>
    [] line = 68 -> <<"_", "n", "a", "f", "_", "r", "e", "g">>
    [] line = 69 -> <<"_", "s", "k", "_", "r", "e", "g">>
    [] line = 70 -> <<"_", "v", "e", "c", "e", "v", "e", "n", "t", "_", "r", "e", "g">>

CallLines == {52, 53, 54, 55, 56, 57, 58, 59, 60, 61, 62, 63, 64, 65, 66, 67, 68, 69, 70}

CheckLine == 28
ReturnLine == 71

\* Fall-through of the straight-line body: the statement after the one at line.
SuccLateNewline(line) ==
  CASE line = 29 -> 31
    [] line = 49 -> 52
    [] line = 52 -> 50
    [] line = 50 -> 53
    [] OTHER -> line + 1

SuccLoop(line) ==
  CASE line = 29 -> 31
    [] line = 50 -> 52
    [] line = 70 -> 52
    [] OTHER -> line + 1

Succ(line) ==
  CASE line = 29 -> 31
    [] line = 50 -> 52
    [] OTHER -> line + 1

\* if (!nrn_nobanner_) if (nrnmpi_myid < 1)
PrintBannerOnce(p) == nrn_nobanner_[p] = 0 /\ nrnmpi_myid[p] < 1 /\ invocations[p] = 1

PrintBannerAnyRank(p) == nrn_nobanner_[p] = 0

PrintBannerRankZero(p) == nrn_nobanner_[p] = 0 /\ nrnmpi_myid[p] = 0

PrintBanner(p) == nrn_nobanner_[p] = 0 /\ nrnmpi_myid[p] < 1

TypeOK ==
  /\ nprocs \in 1..MaxProcs
  /\ nrn_nobanner_ \in [Procs -> Flags]
  /\ nrnmpi_myid \in [Procs -> Ranks]
  /\ pc \in [Procs -> {0} \cup CheckLine..ReturnLine]
  /\ \A p \in Procs : callee[p] \in DeclaredRegs \cup {<<>>}
  /\ failed \in [Procs -> BOOLEAN]
  /\ nwrites \in [Procs -> Nat]
  /\ invocations \in [Procs -> 0..MaxInvocations]
  /\ \A p \in Procs : regCount[p] \in [DeclaredRegs -> Nat]
  /\ bannerCount \in [Procs -> Nat]
  /\ eligibleCount \in [Procs -> Nat]
  /\ entryGlobals \in [Procs -> Flags \X Ranks]
  /\ calleeChanged \in [Procs -> BOOLEAN]

\* State of n processes before any of them has called modl_reg.
Loaded(n) ==
  /\ nprocs = n
  /\ pc = [p \in 1..n |-> 0]
  /\ callee = [p \in 1..n |-> <<>>]
  /\ failed = [p \in 1..n |-> FALSE]
  /\ written = [p \in 1..n |-> <<>>]
  /\ nwrites = [p \in 1..n |-> 0]
  /\ calls = [p \in 1..n |-> <<>>]
  /\ invocations = [p \in 1..n |-> 0]
  /\ regCount = [p \in 1..n |-> [f \in DeclaredRegs |-> 0]]
  /\ bannerCount = [p \in 1..n |-> 0]
  /\ eligibleCount = [p \in 1..n |-> 0]
  /\ entryGlobals = [p \in 1..n |-> <<nrn_nobanner_[p], nrnmpi_myid[p]>>]
  /\ calleeChanged = [p \in 1..n |-> FALSE]

\* One process; the host runtime has set the two globals to any values.
Init ==
  /\ nrn_nobanner_ \in [1..1 -> Flags]
  /\ nrnmpi_myid \in [1..1 -> Ranks]
  /\ Loaded(1)

\* A distributed run: ranks 0..n-1, banner not suppressed anywhere.
InitMPI ==
  \E n \in 1..MaxProcs :
    /\ nrn_nobanner_ = [p \in 1..n |-> 0]
    /\ nrnmpi_myid = [p \in 1..n |-> p - 1]
    /\ Loaded(n)

\* The host calls modl_reg().
Invoke(p) ==
  /\ pc[p] \in {0, ReturnLine}
  /\ invocations[p] < MaxInvocations
  /\ pc' = [pc EXCEPT ![p] = CheckLine]
  /\ invocations' = [invocations EXCEPT ![p] = @ + 1]
  /\ written' = [written EXCEPT ![p] = <<>>]
  /\ nwrites' = [nwrites EXCEPT ![p] = 0]
  /\ calls' = [calls EXCEPT ![p] = <<>>]
  /\ failed' = [failed EXCEPT ![p] = FALSE]
  /\ calleeChanged' = [calleeChanged EXCEPT ![p] = FALSE]
  /\ entryGlobals' = [entryGlobals EXCEPT ![p] = <<nrn_nobanner_[p], nrnmpi_myid[p]>>]
  /\ eligibleCount' = [eligibleCount EXCEPT
                         ![p] = IF nrn_nobanner_[p] = 0 /\ nrnmpi_myid[p] < 1
                                THEN @ + 1 ELSE @]
  /\ UNCHANGED <<nprocs, nrn_nobanner_, nrnmpi_myid, callee, regCount, bannerCount>>

\* Line 28: the nested condition guarding the banner block.
BannerCheckClobber(p) ==
  /\ pc[p] = CheckLine
  /\ pc' = [pc EXCEPT ![p] = IF PrintBanner(p) THEN 29 ELSE 52]
  /\ nrn_nobanner_' = [nrn_nobanner_ EXCEPT ![p] = 1]
  /\ UNCHANGED <<nprocs, nrnmpi_myid, callee, failed, written, nwrites, calls,
                 invocations, regCount, bannerCount, eligibleCount, entryGlobals,
                 calleeChanged>>

BannerCheck(p) ==
  /\ pc[p] = CheckLine
  /\ pc' = [pc EXCEPT ![p] = IF PrintBanner(p) THEN 29 ELSE 52]
  /\ UNCHANGED <<nprocs, nrn_nobanner_, nrnmpi_myid, callee, failed, written, nwrites,
                 calls, invocations, regCount, bannerCount, eligibleCount,
                 entryGlobals, calleeChanged>>

\* Lines 29-50: one fprintf(stderr, ...).
Fprintf(p) ==
  /\ pc[p] \in FprintfLines
  /\ callee[p] = <<>>
  /\ written' = [written EXCEPT ![p] = @ \o FprintfArg(pc[p])]
  /\ nwrites' = [nwrites EXCEPT ![p] = @ + 1]
  /\ bannerCount' = [bannerCount EXCEPT ![p] = IF pc[p] = 50 THEN @ + 1 ELSE @]
  /\ pc' = [pc EXCEPT ![p] = Succ(pc[p])]
  /\ UNCHANGED <<nprocs, nrn_nobanner_, nrnmpi_myid, callee, failed, calls,
                 invocations, regCount, eligibleCount, entryGlobals, calleeChanged>>

\* Lines 52-70: control enters the entry point named at the line.
Call(p) ==
  /\ pc[p] \in CallLines
  /\ callee[p] = <<>>
  /\ callee' = [callee EXCEPT ![p] = RegCallee(pc[p])]
  /\ calls' = [calls EXCEPT ![p] = Append(@, RegCallee(pc[p]))]
  /\ regCount' = [regCount EXCEPT ![p][RegCallee(pc[p])] = @ + 1]
  /\ UNCHANGED <<nprocs, nrn_nobanner_, nrnmpi_myid, pc, failed, written, nwrites,
                 invocations, bannerCount, eligibleCount, entryGlobals, calleeChanged>>

\* The entry point returns to the statement after the call.  It is external
\* code: it may have failed (fault) and may have stored flag and rank into
\* the globals.  Being void, it hands nothing back to modl_reg.
CalleeRunsAbort(p, fault, flag, rank) ==
  /\ callee[p] # <<>>
  /\ callee' = [callee EXCEPT ![p] = <<>>]
  /\ failed' = [failed EXCEPT ![p] = @ \/ fault]
  /\ nrn_nobanner_' = [nrn_nobanner_ EXCEPT ![p] = flag]
  /\ nrnmpi_myid' = [nrnmpi_myid EXCEPT ![p] = rank]
  /\ calleeChanged' = [calleeChanged EXCEPT
                         ![p] = @ \/ flag # nrn_nobanner_[p] \/ rank # nrnmpi_myid[p]]
  /\ pc' = [pc EXCEPT ![p] = IF fault THEN ReturnLine ELSE Succ(pc[p])]
  /\ UNCHANGED <<nprocs, written, nwrites, calls, invocations, regCount, bannerCount,
                 eligibleCount, entryGlobals>>

CalleeRuns(p, fault, flag, rank) ==
  /\ callee[p] # <<>>
  /\ callee' = [callee EXCEPT ![p] = <<>>]
  /\ failed' = [failed EXCEPT ![p] = @ \/ fault]
  /\ nrn_nobanner_' = [nrn_nobanner_ EXCEPT ![p] = flag]
  /\ nrnmpi_myid' = [nrnmpi_myid EXCEPT ![p] = rank]
  /\ calleeChanged' = [calleeChanged EXCEPT
                         ![p] = @ \/ flag # nrn_nobanner_[p] \/ rank # nrnmpi_myid[p]]
  /\ pc' = [pc EXCEPT ![p] = Succ(pc[p])]
  /\ UNCHANGED <<nprocs, written, nwrites, calls, invocations, regCount, bannerCount,
                 eligibleCount, entryGlobals>>

\* An entry point of unknown behaviour returns.
CalleeReturn(p) ==
  \E fault \in BOOLEAN, flag \in Flags, rank \in Ranks : CalleeRuns(p, fault, flag, rank)

\* An entry point that only registers its mechanism returns.
CalleeReturnQuiet(p) ==
  CalleeRuns(p, FALSE, nrn_nobanner_[p], nrnmpi_myid[p])

\* A statement of modl_reg itself.
Step(p) == BannerCheck(p) \/ Fprintf(p) \/ Call(p)

Next ==
  \E p \in Procs : Invoke(p) \/ Step(p) \/ CalleeReturn(p)

Spec == Init /\ [][Next]_vars

\* The process keeps running and every entry point returns.
Progress ==
  \E p \in Procs : Step(p) \/ CalleeReturn(p)

LiveSpec == Init /\ [][Next]_vars /\ WF_vars(Progress)

\* Each process of the distributed run calls modl_reg once.
InvokeOnce(p) == invocations[p] = 0 /\ Invoke(p)

NextMPI ==
  \E p \in Procs : InvokeOnce(p) \/ Step(p) \/ CalleeReturnQuiet(p)

SpecMPI == InitMPI /\ [][NextMPI]_vars

(***************************************************************************)
(* Reading the diagnostic text back: words, file names, stems.             *)
(***************************************************************************)
ClaimedRegs ==
  << <<"_", "I", "m", "_", "r", "e", "g">>,
     <<"_", "b", "k", "_", "r", "e", "g">>,
     <<"_", "c", "a", "d", "y", "n", "_", "r", "e", "g">>,
     <<"_", "c", "a", "l", "1", "2", "_", "r", "e", "g">>,
     <<"_", "c", "a", "l", "1", "3", "_", "r", "e", "g">>,
     <<"_", "c", "a", "l", "d", "y", "n", "_", "r", "e", "g">>,
     <<"_", "c", "a", "n", "_", "r", "e", "g">>,
     <<"_", "c", "a", "r", "_", "r", "e", "g">>,
     <<"_", "c", "a", "v", "3", "2", "_", "r", "e", "g">>,
     <<"_", "c", "a", "v", "3", "3", "_", "r", "e", "g">>,
     <<"_", "g", "a", "b", "a", "_", "r", "e", "g">>,
     <<"_", "g", "l", "u", "t", "a", "m", "a", "t", "e", "_", "r", "e", "g">>,
     <<"_", "k", "a", "f", "_", "r", "e", "g">>,
     <<"_", "k", "a", "s", "_", "r", "e", "g">>,
     <<"_", "k", "d", "r", "_", "r", "e", "g">>,
     <<"_", "k", "i", "r", "_", "r", "e", "g">>,
     <<"_", "n", "a", "f", "_", "r", "e", "g">>,
     <<"_", "s", "k", "_", "r", "e", "g">>,
     <<"_", "v", "e", "c", "e", "v", "e", "n", "t", "_", "r", "e", "g">> >>

ClaimedFiles ==
  << <<"I", "m", ".", "m", "o", "d">>,
     <<"b", "k", ".", "m", "o", "d">>,
     <<"c", "a", "d", "y", "n", ".", "m", "o", "d">>,
     <<"c", "a", "l", "1", "2", ".", "m", "o", "d">>,
     <<"c", "a", "l", "1", "3", ".", "m", "o", "d">>,
     <<"c", "a", "l", "d", "y", "n", ".", "m", "o", "d">>,
     <<"c", "a", "n", ".", "m", "o", "d">>,
     <<"c", "a", "r", ".", "m", "o", "d">>,
     <<"c", "a", "v", "3", "2", ".", "m", "o", "d">>,
     <<"c", "a", "v", "3", "3", ".", "m", "o", "d">>,
     <<"g", "a", "b", "a", ".", "m", "o", "d">>,
     <<"g", "l", "u", "t", "a", "m", "a", "t", "e", ".", "m", "o", "d">>,
     <<"k", "a", "f", ".", "m", "o", "d">>,
     <<"k", "a", "s", ".", "m", "o", "d">>,
     <<"k", "d", "r", ".", "m", "o", "d">>,
     <<"k", "i", "r", ".", "m", "o", "d">>,
     <<"n", "a", "f", ".", "m", "o", "d">>,
     <<"s", "k", ".", "m", "o", "d">>,
     <<"v", "e", "c", "e", "v", "e", "n", "t", ".", "m", "o", "d">> >>

DotMod == <<".", "m", "o", "d">>
RegSuffix == <<"_", "r", "e", "g">>

FirstCallLine == 52

IsSep(c) == c \in {" ", "\n"}

IsPrefix(s, t) == Len(s) <= Len(t) /\ s = SubSeq(t, 1, Len(s))

HasSuffix(s, suf) ==
  Len(s) >= Len(suf) /\ SubSeq(s, Len(s) - Len(suf) + 1, Len(s)) = suf

\* The maximal runs of non-separator characters of text, each with the
\* index of its first character, left to right.
WordStarts(text) ==
  {i \in 1..Len(text) : ~IsSep(text[i]) /\ (i = 1 \/ IsSep(text[i - 1]))}

WordEnd(text, s) ==
  CHOOSE e \in s..Len(text) :
    /\ \A j \in s..e : ~IsSep(text[j])
    /\ e = Len(text) \/ IsSep(text[e + 1])

Words(text) ==
  LET starts == WordStarts(text)
  IN  [k \in 1..Cardinality(starts) |->
        LET s == CHOOSE s \in starts : Cardinality({t \in starts : t <= s}) = k
        IN  [word |-> SubSeq(text, s, WordEnd(text, s)), at |-> s]]

IsFileWord(w) == HasSuffix(w.word, DotMod)

FileWords(text) == SelectSeq(Words(text), IsFileWord)

FileNames(text) == [i \in 1..Len(FileWords(text)) |-> FileWords(text)[i].word]

\* The character before index at is a space and the one before that is not.
SingleSpaceBefore(text, at) ==
  /\ at >= 2
  /\ text[at - 1] = " "
  /\ at >= 3 => text[at - 2] # " "

EndsWithOneNewline(text) ==
  /\ Len(text) >= 1
  /\ text[Len(text)] = "\n"
  /\ Len(text) >= 2 => text[Len(text) - 1] # "\n"

\* X of a file name X.mod, and X of an entry point _X_reg.
StemOfFile(name) == SubSeq(name, 1, Len(name) - Len(DotMod))

StemOfReg(name) ==
  IF Len(name) > 1 + Len(RegSuffix) /\ name[1] = "_" /\ HasSuffix(name, RegSuffix)
  THEN SubSeq(name, 2, Len(name) - Len(RegSuffix))
  ELSE <<>>

Occurrences(seq, x) == Cardinality({i \in 1..Len(seq) : seq[i] = x})

EnteredEligible(p) == entryGlobals[p][1] = 0 /\ entryGlobals[p][2] < 1

(***************************************************************************)
(* Properties.                                                             *)
(***************************************************************************)

\* C1: in every invocation, whatever the flag and the rank, the registration
\* calls made so far are a prefix of the 19 listed entry points, and at the
\* return they are exactly that list: each entry point once, in that order.
C1_RegistrationOrder ==
  \A p \in Procs :
    /\ IsPrefix(calls[p], ClaimedRegs)
    /\ pc[p] = ReturnLine =>
         /\ calls[p] = ClaimedRegs
         /\ Len(calls[p]) = 19
         /\ \A f \in DeclaredRegs : Occurrences(calls[p], f) = 1

\* A process has returned from a second invocation, one of the two having
\* printed the banner and the other not, with all 19 calls made.
C1_Witness ==
  \E p \in Procs :
    /\ pc[p] = ReturnLine
    /\ invocations[p] = 2
    /\ bannerCount[p] = 1
    /\ Len(calls[p]) = 19

\* C2: an invocation writes the banner if and only if it was entered with
\* nrn_nobanner_ zero and nrnmpi_myid < 1; in every other case it writes
\* nothing at all to the diagnostic stream.
C2_BannerIff ==
  \A p \in Procs :
    pc[p] # 0 =>
      /\ ~EnteredEligible(p) => written[p] = <<>> /\ nwrites[p] = 0
      /\ (EnteredEligible(p) /\ pc[p] >= FirstCallLine) =>
           written[p] # <<>> /\ nwrites[p] > 0

\* An invocation entered with rank -1 and the flag clear has printed.
C2_Witness ==
  \E p \in Procs :
    /\ pc[p] = ReturnLine
    /\ entryGlobals[p] = <<0, 0 - 1>>
    /\ written[p] # <<>>

\* C3: once the banner is printed, the file names in the text are exactly
\* the 19 listed names in the listed order, each preceded by exactly one
\* space, and the text ends with exactly one newline.
C3_BannerText ==
  \A p \in Procs :
    (pc[p] >= FirstCallLine /\ written[p] # <<>>) =>
      LET files == FileWords(written[p])
      IN  /\ [i \in 1..Len(files) |-> files[i].word] = ClaimedFiles
          /\ \A i \in 1..Len(files) : SingleSpaceBefore(written[p], files[i].at)
          /\ EndsWithOneNewline(written[p])

\* The banner has just been completed and no entry point was called yet.
C3_Witness ==
  \E p \in Procs :
    /\ pc[p] = FirstCallLine
    /\ nwrites[p] = 21
    /\ calls[p] = <<>>

\* C4: every write to the diagnostic stream, the final newline included,
\* happens while no registration call has been made in the invocation.
C4_BannerBeforeRegistration ==
  [][\A p \in Procs :
       (nwrites'[p] > nwrites[p] \/ (written'[p] # written[p] /\ written'[p] # <<>>)) =>
         calls[p] = <<>> /\ calls'[p] = <<>>]_vars

\* The whole banner is out and an entry point is executing.
C4_Witness ==
  \E p \in Procs :
    /\ nwrites[p] = 21
    /\ callee[p] # <<>>

\* C5: at the return of the k-th invocation every entry point has been
\* called exactly k times, the k-th invocation made the full 19-call
\* sequence, and a banner was printed for every invocation entered with the
\* flag clear and rank < 1.
C5_NoMemory ==
  \A p \in Procs :
    pc[p] = ReturnLine =>
      /\ Cardinality(DOMAIN regCount[p]) = 19
      /\ \A f \in DOMAIN regCount[p] : regCount[p][f] = invocations[p]
      /\ calls[p] = ClaimedRegs
      /\ bannerCount[p] = eligibleCount[p]

\* A second invocation has returned and both invocations printed.
C5_Witness ==
  \E p \in Procs :
    /\ pc[p] = ReturnLine
    /\ invocations[p] = 2
    /\ bannerCount[p] = 2

\* C6: in a run of N processes with ranks 0..N-1 and the flag clear, once
\* every process has returned from modl_reg exactly one process, the one of
\* rank 0, has printed the banner, and every process made all 19 calls.
C6_OnePrinter ==
  (\A p \in Procs : pc[p] = ReturnLine) =>
    /\ Cardinality({p \in Procs : written[p] # <<>>}) = 1
    /\ \A p \in Procs : written[p] # <<>> <=> nrnmpi_myid[p] = 0
    /\ \A p \in Procs : calls[p] = ClaimedRegs

\* Two processes have both returned.
C6_Witness ==
  /\ nprocs = 2
  /\ \A p \in Procs : pc[p] = ReturnLine /\ Len(calls[p]) = 19

\* C7: no statement of modl_reg changes nrn_nobanner_ or nrnmpi_myid, and
\* at the return they have their values of the entry unless an entry point
\* changed them.
C7_GlobalsReadOnly ==
  [][\A p \in Procs :
       /\ callee[p] = <<>> =>
            nrn_nobanner_'[p] = nrn_nobanner_[p] /\ nrnmpi_myid'[p] = nrnmpi_myid[p]
       /\ (pc'[p] = ReturnLine /\ ~calleeChanged'[p]) =>
            <<nrn_nobanner_'[p], nrnmpi_myid'[p]>> = entryGlobals'[p]]_vars

\* An invocation that printed has returned with no entry point having
\* touched the globals.
C7_Witness ==
  \E p \in Procs :
    /\ pc[p] = ReturnLine
    /\ ~calleeChanged[p]
    /\ written[p] # <<>>

\* C8: after an entry point has failed and returned, the program point is
\* still the one fixed by the number of calls made, the calls are still a
\* prefix of the list, and at the return all 19 were made once, in order.
C8_FailureInvisible ==
  \A p \in Procs :
    failed[p] =>
      /\ IsPrefix(calls[p], ClaimedRegs)
      /\ pc[p] = FirstCallLine + Len(calls[p]) - (IF callee[p] # <<>> THEN 1 ELSE 0)
      /\ pc[p] = ReturnLine => calls[p] = ClaimedRegs

\* An entry point failed earlier and the last one of the list is executing.
C8_Witness ==
  \E p \in Procs :
    /\ failed[p]
    /\ callee[p] = ClaimedRegs[19]

\* C9: when the banner is printed, the i-th file name of the banner and the
\* i-th registration call have the same stem X (X.mod and _X_reg), for
\* every i in 1..19, and there are as many names as calls.
C9_BannerMatchesCalls ==
  \A p \in Procs :
    (pc[p] = ReturnLine /\ written[p] # <<>>) =>
      LET names == FileNames(written[p])
      IN  /\ Len(names) = 19
          /\ Len(calls[p]) = 19
          /\ \A i \in 1..19 :
               /\ StemOfReg(calls[p][i]) # <<>>
               /\ StemOfFile(names[i]) = StemOfReg(calls[p][i])

\* A second invocation printed the banner and made all the calls.
C9_Witness ==
  \E p \in Procs :
    /\ pc[p] = ReturnLine
    /\ invocations[p] = 2
    /\ nwrites[p] = 21
    /\ calls[p] = ClaimedRegs

\* C10: an invocation never makes more than 21 writes nor more than 19
\* calls, and, every entry point returning, each invocation that has begun
\* reaches the return having made exactly 19 calls.
C10_Terminates ==
  /\ [](\A p \in Procs : nwrites[p] <= 21 /\ Len(calls[p]) <= 19)
  /\ \A p \in 1..MaxProcs :
       (p \in Procs /\ pc[p] = CheckLine) ~>
         (p \in Procs /\ pc[p] = ReturnLine /\ Len(calls[p]) = 19)

\* An invocation returned after 21 writes and 19 calls although entry
\* points failed and changed the globals.
C10_Witness ==
  \E p \in Procs :
    /\ pc[p] = ReturnLine
    /\ nwrites[p] = 21
    /\ Len(calls[p]) = 19
    /\ failed[p]
    /\ calleeChanged[p]

====
